---- MODULE Spec2Model ----
(***************************************************************************)
(* Model of src/devtools/DebuggerAttachEventController.ts.                 *)
(*                                                                         *)
(* The controller owns five BehaviorSubjects (permission, attachInterest,  *)
(* attachState, webAudioEventInterest, webAudioEventState), combines them  *)
(* with combineLatest + distinctUntilChanged + share and governs them with *)
(* two subscriptions on the combined state and one on chrome's onDetach    *)
(* event.  rxjs delivers every `next` synchronously and re-entrantly: a    *)
(* `next` made inside an observer runs its whole reaction before the outer *)
(* delivery continues with its following observers.  A reaction is         *)
(* computed on a record `s` whose field `stack` is the JavaScript call     *)
(* stack: the calls still to be made, innermost first.  Each action of the *)
(* model is one JavaScript task (an API call, a chrome event or a chrome   *)
(* callback), run until the stack is empty.                                *)
(***************************************************************************)
EXTENDS Integers, Sequences, FiniteSets, TLC

\* ---------------------------------------------------------------- bounds
\* interest acquired by callers other than sendCommand, per counter
MaxInterest == 1
\* sendCommand calls made in one behaviour
MaxCommands == 2
\* attach/detach/enable/disable calls awaiting their chrome callback
MaxInFlight == 2
\* rule evaluations made by one task
MaxCascadeEvals == 12
\* next() calls on the two state subjects made by one task
MaxCascadeWrites == 8

\* ---------------------------------------------------------------- enums
UNKNOWN == "UNKNOWN"
TEMPORARY == "TEMPORARY"
REJECTED == "REJECTED"
AttachPermission == {UNKNOWN, TEMPORARY, REJECTED}

DEACTIVATING == "deactivating"
IS_INACTIVE == "isInactive"
ACTIVATING == "activating"
IS_ACTIVE == "isActive"
BinaryTransition == {DEACTIVATING, IS_INACTIVE, ACTIVATING, IS_ACTIVE}

\* the two BinaryTransitionSubject instances of debuggerSubject
Subjects == {"attachState", "webAudioEventState"}

\* reasons chrome.debugger.onDetach reports
DetachReasons == {"canceled_by_user", "target_closed"}

\* how a chrome callback ends: without lastError, with the lastError
\* 'Another debugger is already attached ...', or with any other lastError
Outcomes == {"complete", "alreadyAttached", "error"}

activateTransition ==
  [beginningState |-> IS_INACTIVE, intermediateState |-> ACTIVATING,
   successState |-> IS_ACTIVE, errorState |-> IS_INACTIVE,
   action |-> "activate"]

deactivateTransition ==
  [beginningState |-> IS_ACTIVE, intermediateState |-> DEACTIVATING,
   successState |-> IS_INACTIVE, errorState |-> IS_INACTIVE,
   action |-> "deactivate"]

Description(action) ==
  IF action = "activate" THEN activateTransition ELSE deactivateTransition

\* a pending action() observable of transition(): which subject started it,
\* with which description; `forced` remembers that the subject was written
\* with a bare next(IS_INACTIVE) while in this action's intermediate state
ActionKind == [subject : Subjects, action : {"activate", "deactivate"},
               forced : BOOLEAN]

VARIABLES
  permission,             \* PermissionSubject value
  attachInterest,         \* CounterSubject value
  attachState,            \* BinaryTransitionSubject value
  webAudioEventInterest,  \* CounterSubject value
  webAudioEventState,     \* BinaryTransitionSubject value
  previous,               \* distinctUntilChanged's last emitted snapshot
  inflight,               \* ActionKind -> number of pending action()s
  nextCmd,                \* id of the next sendCommand call
  created,                \* sendCommand results not yet subscribed
  waiting,                \* subscribed sendCommands waiting for IS_ACTIVE,
                          \* in the order they observe attachState$
  running,                \* sendCommands whose chrome call is pending
  attachHolders,          \* increments of attachInterest$ by other callers
                          \* that they have not yet decremented
  errored,                \* the task was a sendCommand's command ending with
                          \* lastError
  canceled,               \* a canceled_by_user detach was handled while
                          \* attachState was IS_ACTIVE
  regranted,              \* the task was grantTemporary() called while
                          \* REJECTED
  detached,               \* the task was the handler of chrome's onDetach
  settled,                \* the pending action whose chrome callback the
                          \* task was, and how it ended (NotSettled for the
                          \* other tasks)
  writes,                 \* next() calls on the two state subjects, in order
  invoked,                \* chrome calls started by the task, in order
  calls,                  \* activate()/deactivate() calls of the task
  evals,                  \* rule evaluations of the task, in order
  started                 \* sendCommands whose chrome call the task started

vars == <<permission, attachInterest, attachState, webAudioEventInterest,
          webAudioEventState, previous, inflight, nextCmd, created, waiting,
          running, attachHolders, errored, canceled, regranted, detached, settled,
          writes, invoked, calls, evals, started>>

\* ------------------------------------------------------------- helpers
Range(seq) == {seq[i] : i \in 1..Len(seq)}

RECURSIVE SumOver(_, _)
SumOver(f, D) ==
  IF D = {} THEN 0
  ELSE LET x == CHOOSE y \in D : TRUE IN f[x] + SumOver(f, D \ {x})

InFlightTotal(bag) == SumOver(bag, ActionKind)

\* value of one of the two BinaryTransitionSubjects
Value(s, subject) == s[subject]

\* what combineLatest(debuggerSubject) pushes: a copy of the latest values.
\* The combineLatest subscriber is the first observer of every subject, so
\* its latest values are the subjects' current values.
Snapshot(s) ==
  [permission |-> s.permission,
   attachInterest |-> s.attachInterest,
   attachState |-> s.attachState,
   webAudioEventInterest |-> s.webAudioEventInterest,
   webAudioEventState |-> s.webAudioEventState]

\* the program state of a reaction record, without the per-task logs
Core(s) ==
  [snapshot |-> Snapshot(s), previous |-> s.previous,
   inflight |-> s.inflight, waiting |-> s.waiting, running |-> s.running]

\* ------------------------------------------------- BinaryTransitionSubject
\* mutant of TransitionGuard: only a transition of the same direction that
\* is in flight stops the call
TransitionGuardNotIntermediate(value, description) ==
  value # description.intermediateState

\* transition(): `if (this.value === description.beginningState)`
TransitionGuard(value, description) == value = description.beginningState

\* mutant of SuccessValue: the defer() pushes nothing
SuccessValueEmpty(value, description) == <<>>

\* transition(): the defer() that follows a completed action; the sequence
\* holds the values the observable pushes (none for EMPTY)
SuccessValue(value, description) ==
  IF value = description.intermediateState
  THEN <<description.successState>>
  ELSE <<>>

\* mutant of ErrorValue: the message of the error is not consulted
ErrorValueAnyMessage(value, description, alreadyAttached) ==
  <<IF value = description.intermediateState
    THEN description.errorState
    ELSE description.beginningState>>

\* transition(): the catchError selector
ErrorValue(value, description, alreadyAttached) ==
  IF alreadyAttached
  THEN IF value = description.intermediateState
       THEN <<description.successState>>
       ELSE <<>>
  ELSE <<IF value = description.intermediateState
         THEN description.errorState
         ELSE description.beginningState>>

\* ------------------------------------------------------ policy conditions
\* mutant of AttachRule: the permission is not consulted
AttachRuleNoPermission(state) == state.attachInterest > 0

\* the condition of the subscription governing attachment
AttachRule(state) ==
  state.permission = TEMPORARY /\ state.attachInterest > 0

\* mutant of WebAudioEventRule: the first condition does not consult
\* attachState
WebAudioEventRuleNoAttachCheck(state) ==
  IF state.webAudioEventInterest > 0
  THEN "activate"
  ELSE IF state.attachState = IS_ACTIVE THEN "deactivate" ELSE "next"

\* the branch the subscription governing web audio events takes
WebAudioEventRule(state) ==
  IF state.attachState = IS_ACTIVE /\ state.webAudioEventInterest > 0
  THEN "activate"
  ELSE IF state.attachState = IS_ACTIVE THEN "deactivate" ELSE "next"

\* mutant of DistinctCompare: webAudioEventState is not compared
DistinctCompareNoStreamState(prev, current) ==
  /\ prev.permission = current.permission
  /\ prev.attachInterest = current.attachInterest
  /\ prev.attachState = current.attachState
  /\ prev.webAudioEventInterest = current.webAudioEventInterest

\* the comparator given to distinctUntilChanged
DistinctCompare(prev, current) ==
  /\ prev.permission = current.permission
  /\ prev.attachInterest = current.attachInterest
  /\ prev.attachState = current.attachState
  /\ prev.webAudioEventInterest = current.webAudioEventInterest
  /\ prev.webAudioEventState = current.webAudioEventState


\* ------------------------------------------------------------ call stack
\* a call still to be made: what is called, on which subject (for the
\* observer of a sendCommand: its id), with which value or snapshot
Frame(op, subject, arg) == [op |-> op, subject |-> subject, arg |-> arg]

\* the calls `frames` are made next, in order, before the rest of the stack
Push(s, frames) == [s EXCEPT !.stack = frames \o @]

\* ------------------------------------------------------------ sendCommand
\* one chrome call as the log records it: what is called and the state the
\* controller is in at that moment
Invocation(s, subject, action) ==
  [subject |-> subject, action |-> action,
   permission |-> s.permission, attachInterest |-> s.attachInterest,
   attachState |-> s.attachState,
   webAudioEventState |-> s.webAudioEventState]

\* mutant of CommandNext: a pending sendCommand that is not the latest
\* subscribed one is dropped when IS_ACTIVE arrives
CommandNextDropEarlier(s, c, value) ==
  IF value = IS_ACTIVE /\ c \in Range(s.waiting)
  THEN IF c = s.waiting[Len(s.waiting)]
       THEN [s EXCEPT !.waiting = SelectSeq(@, LAMBDA x : x # c),
                      !.running = @ \cup {c},
                      !.started = Append(@, c),
                      !.invoked = Append(@, Invocation(s, "command",
                                                       "sendCommand"))]
       ELSE [s EXCEPT !.waiting = SelectSeq(@, LAMBDA x : x # c)]
  ELSE s

\* filter(IS_ACTIVE), take(1), exhaustMap(() => sendCommand(...)) of one
\* subscribed sendCommand receiving `value` from attachState$
CommandNext(s, c, value) ==
  IF value = IS_ACTIVE /\ c \in Range(s.waiting)
  THEN [s EXCEPT !.waiting = SelectSeq(@, LAMBDA x : x # c),
                 !.running = @ \cup {c},
                 !.started = Append(@, c),
                 !.invoked = Append(@, Invocation(s, "command", "sendCommand"))]
  ELSE s

\* ------------------------------------------------------------- reactions
\* BehaviorSubject.next on attachState / webAudioEventState: store the
\* value, then push it to the observers in subscription order: first the
\* combineLatest subscriber, then (attachState only) the sendCommands that
\* are subscribed when next() is called
SubjectNext(s, subject, value) ==
  Push([s EXCEPT ![subject] = value,
                 !.writes = Append(@, [subject |-> subject,
                                       from |-> s[subject], to |-> value])],
       <<Frame("combineLatest", "-", "-")>>
         \o (IF subject = "attachState"
             THEN [i \in 1..Len(s.waiting) |->
                     Frame("command", s.waiting[i], value)]
             ELSE <<>>))

\* mutant of transition: a call that does not find the beginning state
\* still makes the chrome call
transitionActionAlways(s, subject, description) ==
  IF TransitionGuard(s[subject], description)
  THEN Push(s, <<Frame("next", subject, description.intermediateState),
                 Frame("action", subject, description.action)>>)
  ELSE Push(s, <<Frame("action", subject, description.action)>>)

\* transition(description): concat(of(intermediateState), action(), ...)
\* is subscribed when the guard holds
transition(s, subject, description) ==
  IF TransitionGuard(s[subject], description)
  THEN Push(s, <<Frame("next", subject, description.intermediateState),
                 Frame("action", subject, description.action)>>)
  ELSE s

\* description.action() is subscribed: the chrome call is made
ActionSubscribed(s, subject, action) ==
  [s EXCEPT !.inflight[[subject |-> subject, action |-> action,
                        forced |-> FALSE]] = @ + 1,
            !.invoked = Append(@, Invocation(s, subject, action))]

\* activate() / deactivate() return: the calls log records the value the
\* call found, and whether it changed any state or made any chrome call
Returned(s, subject, called) ==
  [s EXCEPT !.calls =
     Append(@, [subject |-> subject, method |-> called.method,
                value |-> called.value,
                noop |-> (Core(s) = called.core
                          /\ Len(s.invoked) = called.invocations)])]

\* what a call of `method` finds when it is made
Called(s, subject, method) ==
  [method |-> method, value |-> s[subject], core |-> Core(s),
   invocations |-> Len(s.invoked)]

activate(s, subject) ==
  transition(Push(s, <<Frame("return", subject,
                             Called(s, subject, "activate"))>>),
             subject, activateTransition)

deactivate(s, subject) ==
  transition(Push(s, <<Frame("return", subject,
                             Called(s, subject, "deactivate"))>>),
             subject, deactivateTransition)

\* pending actions of `subject` whose intermediate state is `value` become
\* forced ones
MarkForced(bag, subject, value) ==
  [k \in ActionKind |->
     IF k.subject = subject
        /\ Description(k.action).intermediateState = value
     THEN IF k.forced
          THEN bag[k] + bag[[k EXCEPT !.forced = FALSE]]
          ELSE 0
     ELSE bag[k]]

\* a bare subject.next(BinaryTransition.IS_INACTIVE)
ForceInactive(s, subject) ==
  SubjectNext([s EXCEPT !.inflight = MarkForced(@, subject, s[subject])],
              subject, IS_INACTIVE)

\* entry of the evals log: the rule that is given a snapshot, and whether
\* the snapshot it is given holds the subjects' values of that moment
Eval(s, rule, state) ==
  [rule |-> rule, fresh |-> (state = Snapshot(s))]

\* debuggerState$.subscribe governing attachment
AttachmentSubscriber(s, state) ==
  IF AttachRule(state)
  THEN activate([s EXCEPT !.evals = Append(@, Eval(s, "attachment", state))],
                "attachState")
  ELSE deactivate([s EXCEPT !.evals =
                              Append(@, Eval(s, "attachment", state))],
                  "attachState")

\* debuggerState$.subscribe governing web audio events
WebAudioEventSubscriber(s, state) ==
  CASE WebAudioEventRule(state) = "activate" ->
         activate([s EXCEPT !.evals =
                              Append(@, Eval(s, "webAudioEvent", state))],
                  "webAudioEventState")
    [] WebAudioEventRule(state) = "deactivate" ->
         deactivate([s EXCEPT !.evals =
                                Append(@, Eval(s, "webAudioEvent", state))],
                    "webAudioEventState")
    [] OTHER ->
         ForceInactive([s EXCEPT !.evals =
                                   Append(@, Eval(s, "webAudioEvent", state))],
                       "webAudioEventState")

\* a value arrives at combineLatest: distinctUntilChanged stores and passes
\* the snapshot when it differs from the previous one, and share's Subject
\* hands it to the two governing subscriptions in subscription order
CombinedStateNext(s) ==
  IF DistinctCompare(s.previous, Snapshot(s))
  THEN s
  ELSE Push([s EXCEPT !.previous = Snapshot(s)],
            <<Frame("attachment", "-", Snapshot(s)),
              Frame("webAudioEvent", "-", Snapshot(s))>>)

\* ------------------------------------------------- PermissionSubject
\* mutant of grantTemporary: the test is for "not yet granted"
grantTemporaryUnlessGranted(s) ==
  IF s.permission # TEMPORARY
  THEN CombinedStateNext([s EXCEPT !.permission = TEMPORARY])
  ELSE s

grantTemporary(s) ==
  IF s.permission = UNKNOWN
  THEN CombinedStateNext([s EXCEPT !.permission = TEMPORARY])
  ELSE s

reject(s) ==
  IF s.permission # REJECTED
  THEN CombinedStateNext([s EXCEPT !.permission = REJECTED])
  ELSE s

\* ------------------------------------------------------ CounterSubject
increment(s, counter) ==
  CombinedStateNext([s EXCEPT ![counter] = @ + 1])

decrement(s, counter) ==
  CombinedStateNext([s EXCEPT ![counter] = @ - 1])

\* ------------------------------------------------------------ execution
\* the call on top of the stack is made
Call(s, f) ==
  CASE f.op = "next" -> SubjectNext(s, f.subject, f.arg)
    [] f.op = "combineLatest" -> CombinedStateNext(s)
    [] f.op = "attachment" -> AttachmentSubscriber(s, f.arg)
    [] f.op = "webAudioEvent" -> WebAudioEventSubscriber(s, f.arg)
    [] f.op = "action" -> ActionSubscribed(s, f.subject, f.arg)
    [] f.op = "return" -> Returned(s, f.subject, f.arg)
    [] f.op = "command" -> CommandNext(s, f.subject, f.arg)
    [] f.op = "reject" -> reject(s)
    [] f.op = "force" -> ForceInactive(s, f.subject)

\* the task runs until its call stack is empty (t is the value of s)
RECURSIVE Run(_)
Run(s) ==
  CHOOSE r \in {IF t.stack = <<>>
                THEN t
                ELSE Run(Call([t EXCEPT !.stack = Tail(@)], Head(t.stack))) :
                t \in {s}} : TRUE

\* ---------------------------------------------------------------- tasks
NoInFlight == [k \in ActionKind |-> 0]

\* the task is not the chrome callback of a pending action
NotSettled ==
  [subject |-> "-", action |-> "-", forced |-> FALSE, outcome |-> "-"]

\* the task is the chrome callback of pending action k ending with outcome
Settled(k, outcome) ==
  [subject |-> k.subject, action |-> k.action, forced |-> k.forced,
   outcome |-> outcome]

\* the values `new DebuggerAttachEventController()` gives the subjects
Constructed ==
  [permission |-> UNKNOWN, attachInterest |-> 0, attachState |-> IS_INACTIVE,
   webAudioEventInterest |-> 0, webAudioEventState |-> IS_INACTIVE]

\* the reaction record a task starts from: the program state, empty logs,
\* an empty call stack
Current ==
  [permission |-> permission, attachInterest |-> attachInterest,
   attachState |-> attachState,
   webAudioEventInterest |-> webAudioEventInterest,
   webAudioEventState |-> webAudioEventState,
   previous |-> previous, inflight |-> inflight,
   waiting |-> waiting, running |-> running,
   writes |-> <<>>, invoked |-> <<>>, calls |-> <<>>, evals |-> <<>>,
   started |-> <<>>, detached |-> FALSE, settled |-> NotSettled,
   stack |-> <<>>]

\* the constructor's first debuggerState$.subscribe connects share() to
\* combineLatest, which pushes the first snapshot to that one subscription;
\* the subscription governing web audio events is added afterwards
ConstructorReaction ==
  Run([permission |-> UNKNOWN, attachInterest |-> 0,
       attachState |-> IS_INACTIVE, webAudioEventInterest |-> 0,
       webAudioEventState |-> IS_INACTIVE,
       previous |-> Constructed, inflight |-> NoInFlight,
       waiting |-> <<>>, running |-> {},
       writes |-> <<>>, invoked |-> <<>>, calls |-> <<>>, evals |-> <<>>,
       started |-> <<>>, detached |-> FALSE, settled |-> NotSettled,
       stack |-> <<Frame("attachment", "-", Constructed)>>])

\* the task ends in reaction record `end` (r is its value)
Commit(end) ==
  \E r \in {end} :
    /\ InFlightTotal(r.inflight) <= MaxInFlight
    /\ permission' = r.permission
    /\ attachInterest' = r.attachInterest
    /\ attachState' = r.attachState
    /\ webAudioEventInterest' = r.webAudioEventInterest
    /\ webAudioEventState' = r.webAudioEventState
    /\ previous' = r.previous
    /\ inflight' = r.inflight
    /\ waiting' = r.waiting
    /\ running' = r.running
    /\ writes' = r.writes
    /\ invoked' = r.invoked
    /\ calls' = r.calls
    /\ evals' = r.evals
    /\ started' = r.started
    /\ settled' = r.settled
    /\ detached' = r.detached

Init ==
  /\ permission = ConstructorReaction.permission
  /\ attachInterest = ConstructorReaction.attachInterest
  /\ attachState = ConstructorReaction.attachState
  /\ webAudioEventInterest = ConstructorReaction.webAudioEventInterest
  /\ webAudioEventState = ConstructorReaction.webAudioEventState
  /\ previous = ConstructorReaction.previous
  /\ inflight = ConstructorReaction.inflight
  /\ waiting = ConstructorReaction.waiting
  /\ running = ConstructorReaction.running
  /\ writes = ConstructorReaction.writes
  /\ invoked = ConstructorReaction.invoked
  /\ calls = ConstructorReaction.calls
  /\ evals = ConstructorReaction.evals
  /\ started = ConstructorReaction.started
  /\ settled = ConstructorReaction.settled
  /\ detached = ConstructorReaction.detached
  /\ nextCmd = 1
  /\ created = {}
  /\ attachHolders = 0
  /\ errored = FALSE
  /\ canceled = FALSE
  /\ regranted = FALSE

\* permission$.grantTemporary() is called
GrantTemporary ==
  /\ Commit(Run(grantTemporary(Current)))
  /\ regranted' = (permission = REJECTED)
  /\ errored' = FALSE
  /\ UNCHANGED <<nextCmd, created, attachHolders, canceled>>

\* permission$.reject() is called
Reject ==
  /\ Commit(Run(reject(Current)))
  /\ regranted' = FALSE
  /\ errored' = FALSE
  /\ UNCHANGED <<nextCmd, created, attachHolders, canceled>>

\* a caller other than sendCommand calls attachInterest$.increment()
IncrementAttachInterest ==
  /\ attachHolders < MaxInterest
  /\ attachHolders' = attachHolders + 1
  /\ Commit(Run(increment(Current, "attachInterest")))
  /\ regranted' = FALSE
  /\ errored' = FALSE
  /\ UNCHANGED <<nextCmd, created, canceled>>

\* that caller calls attachInterest$.decrement() for an earlier increment
DecrementAttachInterest ==
  /\ attachHolders > 0
  /\ attachHolders' = attachHolders - 1
  /\ Commit(Run(decrement(Current, "attachInterest")))
  /\ regranted' = FALSE
  /\ errored' = FALSE
  /\ UNCHANGED <<nextCmd, created, canceled>>

\* webAudioEventInterest$.increment() is called
IncrementWebAudioEventInterest ==
  /\ webAudioEventInterest < MaxInterest
  /\ Commit(Run(increment(Current, "webAudioEventInterest")))
  /\ regranted' = FALSE
  /\ errored' = FALSE
  /\ UNCHANGED <<nextCmd, created, attachHolders, canceled>>

\* webAudioEventInterest$.decrement() is called for an earlier increment
DecrementWebAudioEventInterest ==
  /\ webAudioEventInterest > 0
  /\ Commit(Run(decrement(Current, "webAudioEventInterest")))
  /\ regranted' = FALSE
  /\ errored' = FALSE
  /\ UNCHANGED <<nextCmd, created, attachHolders, canceled>>

\* mutant of OnDebuggerDetach: the reason is compared with another string,
\* so reject() is never called
OnDebuggerDetachNoReject(reason) ==
  /\ Commit(Run(Push([Current EXCEPT !.detached = TRUE],
                     <<Frame("force", "attachState", "-")>>)))
  /\ canceled' = (canceled \/ (reason = "canceled_by_user"
                               /\ attachState = IS_ACTIVE))
  /\ regranted' = FALSE
  /\ errored' = FALSE
  /\ UNCHANGED <<nextCmd, created, attachHolders>>

\* chrome.debugger.onDetach fires: the onDebuggerDetach$ subscription calls
\* permission.reject() for the reason canceled_by_user, then
\* attachState.next(IS_INACTIVE)
OnDebuggerDetach(reason) ==
  /\ Commit(Run(Push([Current EXCEPT !.detached = TRUE],
                     (IF reason = "canceled_by_user"
                      THEN <<Frame("reject", "-", "-")>>
                      ELSE <<>>)
                       \o <<Frame("force", "attachState", "-")>>)))
  /\ canceled' = (canceled \/ (reason = "canceled_by_user"
                               /\ attachState = IS_ACTIVE))
  /\ regranted' = FALSE
  /\ errored' = FALSE
  /\ UNCHANGED <<nextCmd, created, attachHolders>>

\* the values the rest of transition()'s concat pushes once the chrome
\* callback of a pending action has run
SettledValue(value, description, outcome) ==
  IF outcome = "complete"
  THEN SuccessValue(value, description)
  ELSE ErrorValue(value, description, outcome = "alreadyAttached")

\* this.next.bind(this) for each of the values `out`
SettledNext(s, subject, out) ==
  Push(s, [i \in 1..Len(out) |-> Frame("next", subject, out[i])])

\* the chrome callback of a pending attach/detach/enable/disable runs
ActionSettles(k, outcome) ==
  /\ inflight[k] > 0
  /\ Commit(Run(SettledNext([Current EXCEPT !.inflight[k] = @ - 1,
                                            !.settled = Settled(k, outcome)],
                            k.subject,
                            SettledValue(Value(Current, k.subject),
                                         Description(k.action), outcome))))
  /\ regranted' = FALSE
  /\ errored' = FALSE
  /\ UNCHANGED <<nextCmd, created, attachHolders, canceled>>

\* sendCommand(method) is called: the increment, and the cold observable
\* it returns
SendCommand ==
  /\ nextCmd <= MaxCommands
  /\ nextCmd' = nextCmd + 1
  /\ created' = created \cup {nextCmd}
  /\ Commit(Run(increment(Current, "attachInterest")))
  /\ regranted' = FALSE
  /\ errored' = FALSE
  /\ UNCHANGED <<attachHolders, canceled>>

\* the caller subscribes the observable of sendCommand c: attachState$
\* pushes its current value to the new observer
SubscribeCommand(c) ==
  /\ c \in created
  /\ created' = created \ {c}
  /\ Commit(Run(Push([Current EXCEPT !.waiting = Append(@, c)],
                     <<Frame("command", c, attachState)>>)))
  /\ regranted' = FALSE
  /\ errored' = FALSE
  /\ UNCHANGED <<nextCmd, attachHolders, canceled>>

\* mutant of CommandSettles: the decrement is made on completion only
CommandSettlesLeakOnError(c, outcome) ==
  /\ c \in running
  /\ errored' = (outcome = "error")
  /\ Commit(IF outcome = "error"
            THEN [Current EXCEPT !.running = @ \ {c}]
            ELSE Run(decrement([Current EXCEPT !.running = @ \ {c}],
                               "attachInterest")))
  /\ regranted' = FALSE
  /\ UNCHANGED <<nextCmd, created, attachHolders, canceled>>

\* the chrome callback of sendCommand c's command runs, with or without
\* lastError: the observable completes or errors and finalize() runs
CommandSettles(c, outcome) ==
  /\ c \in running
  /\ errored' = (outcome = "error")
  /\ Commit(Run(decrement([Current EXCEPT !.running = @ \ {c}],
                          "attachInterest")))
  /\ regranted' = FALSE
  /\ UNCHANGED <<nextCmd, created, attachHolders, canceled>>

Next ==
  \/ GrantTemporary
  \/ Reject
  \/ IncrementAttachInterest
  \/ DecrementAttachInterest
  \/ IncrementWebAudioEventInterest
  \/ DecrementWebAudioEventInterest
  \/ \E reason \in DetachReasons : OnDebuggerDetach(reason)
  \/ \E k \in ActionKind, outcome \in Outcomes : ActionSettles(k, outcome)
  \/ SendCommand
  \/ \E c \in 1..MaxCommands : SubscribeCommand(c)
  \/ \E c \in 1..MaxCommands, outcome \in {"complete", "error"} :
       CommandSettles(c, outcome)

Spec == Init /\ [][Next]_vars

\* the controller without sendCommand, whose only effect on the attachment
\* is the attachInterest it holds: permission, the two interests, chrome's
\* detach notifications and the callbacks of attach/detach/enable/disable
NextAttachment ==
  \/ GrantTemporary
  \/ Reject
  \/ IncrementAttachInterest
  \/ DecrementAttachInterest
  \/ IncrementWebAudioEventInterest
  \/ DecrementWebAudioEventInterest
  \/ \E reason \in DetachReasons : OnDebuggerDetach(reason)
  \/ \E k \in ActionKind, outcome \in Outcomes : ActionSettles(k, outcome)

\* chrome runs the callback of every call made to it: each pending
\* attach/detach/enable/disable settles, one way or the other
Fairness ==
  \A k \in ActionKind :
    WF_vars(\E outcome \in Outcomes : ActionSettles(k, outcome))

LiveSpec == Init /\ [][NextAttachment]_vars /\ Fairness

TypeOK ==
  /\ permission \in AttachPermission
  /\ attachInterest \in Int
  /\ attachState \in BinaryTransition
  /\ webAudioEventInterest \in Int
  /\ webAudioEventState \in BinaryTransition
  /\ InFlightTotal(inflight) <= MaxInFlight

\* ================================================================ claims
AttachWrites == {i \in 1..Len(writes) : writes[i].subject = "attachState"}

AttachActivations ==
  {k \in ActionKind : k.subject = "attachState" /\ k.action = "activate"}

\* C1: in every state a task leaves behind, webAudioEventState = IS_ACTIVE
\* implies attachState = IS_ACTIVE.
C1_StreamActiveImpliesAttachActive ==
  webAudioEventState = IS_ACTIVE => attachState = IS_ACTIVE

\* the stream was IS_ACTIVE and the task forced it to IS_INACTIVE because
\* the attachment left IS_ACTIVE
C1_Witness ==
  /\ attachState # IS_ACTIVE
  /\ \E i \in 1..Len(writes) :
       /\ writes[i].subject = "webAudioEventState"
       /\ writes[i].from = IS_ACTIVE
       /\ writes[i].to = IS_INACTIVE

\* C2: the successful completion of an attach action that was pending when
\* attachState was forced to IS_INACTIVE never sets attachState to
\* IS_ACTIVE, also when a newer attach action has re-entered ACTIVATING.
C2_ForcedAttachNeverActivates ==
  [][ ActionSettles([subject |-> "attachState", action |-> "activate",
                     forced |-> TRUE], "complete")
      => \A i \in 1..Len(writes') :
           ~(writes'[i].subject = "attachState"
             /\ writes'[i].to = IS_ACTIVE) ]_vars

\* C3: permission REJECTED is absorbing, and the only changes of permission
\* are UNKNOWN->TEMPORARY, UNKNOWN->REJECTED and TEMPORARY->REJECTED.
C3_PermissionAbsorbing ==
  [][ /\ permission = REJECTED => permission' = REJECTED
      /\ permission' # permission =>
           <<permission, permission'>> \in
             {<<UNKNOWN, TEMPORARY>>, <<UNKNOWN, REJECTED>>,
              <<TEMPORARY, REJECTED>>} ]_vars

\* grantTemporary() was called with permission REJECTED
C3_Witness ==
  permission = REJECTED /\ regranted

\* C4: chrome.debugger.attach (the attachment's activateAction) is called
\* only at moments when permission = TEMPORARY and attachInterest > 0.
C4_AttachOnlyWithPermissionAndInterest ==
  \A i \in 1..Len(invoked) :
    (invoked[i].subject = "attachState" /\ invoked[i].action = "activate")
    => (invoked[i].permission = TEMPORARY /\ invoked[i].attachInterest > 0)

\* the task called chrome.debugger.attach
C4_Witness ==
  \E i \in 1..Len(invoked) :
    invoked[i].subject = "attachState" /\ invoked[i].action = "activate"

\* C5: attachState changes to ACTIVATING only from IS_INACTIVE, and changes
\* to IS_ACTIVE only from ACTIVATING, as the resolution of an activation;
\* never by a deactivation's completion or failure.
C5_ActiveOnlyByActivation ==
  [][ \A i \in 1..Len(writes') :
        writes'[i].subject = "attachState" =>
          /\ (writes'[i].to = ACTIVATING /\ writes'[i].from # ACTIVATING)
               => writes'[i].from = IS_INACTIVE
          /\ (writes'[i].to = IS_ACTIVE /\ writes'[i].from # IS_ACTIVE)
               => /\ writes'[i].from = ACTIVATING
                  /\ \E k \in AttachActivations, outcome \in Outcomes :
                       ActionSettles(k, outcome) ]_vars

\* C6: activate() on a subject that is ACTIVATING or IS_ACTIVE changes no
\* state and starts no action.
C6_ActivateIdempotent ==
  \A i \in 1..Len(calls) :
    (calls[i].method = "activate"
       /\ calls[i].value \in {ACTIVATING, IS_ACTIVE})
    => calls[i].noop

\* one task called activate() on a subject that was IS_ACTIVE and on a
\* subject that was ACTIVATING
C6_Witness ==
  \E i, j \in 1..Len(calls) :
    /\ calls[i].method = "activate" /\ calls[i].value = IS_ACTIVE
    /\ calls[j].method = "activate" /\ calls[j].value = ACTIVATING

\* C7: every sendCommand holds exactly one unit of attachInterest from its
\* call until its command settles (completes or errors), so attachInterest
\* is the other callers' holds plus the unsettled sendCommands, and is never
\* negative.
C7_InterestNeverLeaks ==
  /\ attachInterest =
       attachHolders + Cardinality(created) + Len(waiting)
         + Cardinality(running)
  /\ attachInterest >= 0

\* every sendCommand issued has settled, the last one with an error, and
\* attachInterest is back at the other callers' holds
C7_Witness ==
  /\ nextCmd > MaxCommands
  /\ created = {} /\ waiting = <<>> /\ running = {}
  /\ errored
  /\ attachInterest = attachHolders

\* C8 (as claimed): of the sendCommands pending together, only the most
\* recently issued one starts its command when IS_ACTIVE is reached.
C8_OnlyLatestPendingCommandRuns ==
  \A c \in Range(started) :
    \A d \in Range(started) \cup Range(waiting) : d <= c

\* C8 (amended): no pending sendCommand is ever dropped, and a task that
\* pushes IS_ACTIVE on attachState$ starts the command of every subscribed
\* pending sendCommand.
C8_PendingCommandsAllRun ==
  [][ /\ \A c \in Range(waiting) : c \in Range(waiting') \/ c \in running'
      /\ (\E i \in 1..Len(writes') :
            /\ writes'[i].subject = "attachState"
            /\ writes'[i].to = IS_ACTIVE)
         => (waiting' = <<>> /\ Range(waiting) \subseteq Range(started')) ]_vars

\* two sendCommands were pending together and the task started both
C8_Witness ==
  Len(started) >= 2

\* C9: WebAudio.enable / WebAudio.disable (the stream's activateAction and
\* deactivateAction) are called only at moments when attachState = IS_ACTIVE.
C9_StreamActionsOnlyWhileAttached ==
  \A i \in 1..Len(invoked) :
    invoked[i].subject = "webAudioEventState"
    => invoked[i].attachState = IS_ACTIVE

\* C10: a canceled_by_user detach notification handled while attachState is
\* IS_ACTIVE leaves permission REJECTED and attachState IS_INACTIVE, and a
\* later grantTemporary() leaves permission REJECTED.
C10_CanceledByUserRejects ==
  [][ /\ (attachState = IS_ACTIVE /\ OnDebuggerDetach("canceled_by_user"))
         => (permission' = REJECTED /\ attachState' = IS_INACTIVE)
      /\ (canceled /\ GrantTemporary) => permission' = REJECTED ]_vars

\* grantTemporary() was called after such a notification
C10_Witness ==
  canceled /\ regranted /\ permission = REJECTED

\* C11: a task that starts with attachState and webAudioEventState both
\* IS_ACTIVE, takes attachInterest to 0 and so moves attachState to
\* DEACTIVATING, takes webAudioEventState from IS_ACTIVE straight to
\* IS_INACTIVE: every write it makes on the stream is IS_INACTIVE and it
\* calls neither WebAudio.enable nor WebAudio.disable.
C11_StreamForcedDirectlyInactive ==
  [][ ( /\ attachState = IS_ACTIVE
        /\ webAudioEventState = IS_ACTIVE
        /\ attachInterest > 0
        /\ attachInterest' = 0
        /\ \E i \in 1..Len(writes') :
             /\ writes'[i].subject = "attachState"
             /\ writes'[i].to = DEACTIVATING )
      => ( /\ webAudioEventState' = IS_INACTIVE
           /\ \A i \in 1..Len(writes') :
                writes'[i].subject = "webAudioEventState"
                => writes'[i].to = IS_INACTIVE
           /\ \A i \in 1..Len(invoked') :
                invoked'[i].subject # "webAudioEventState" ) ]_vars

C12_WitnessForced ==
  /\ settled.subject = "attachState"
  /\ settled.action = "activate"
  /\ settled.forced
  /\ settled.outcome = "alreadyAttached"
  /\ writes = <<>>

\* C13: the task in which a chrome.debugger.attach ends with a generic
\* lastError while attachState is ACTIVATING, which reverts attachState to
\* IS_INACTIVE with permission and attachInterest as they were, does not
\* call chrome.debugger.attach again.
C13_NoAutomaticRetry ==
  [][ \A k \in AttachActivations :
        (attachState = ACTIVATING /\ ActionSettles(k, "error"))
        => \A i \in 1..Len(invoked') :
             ~(invoked'[i].subject = "attachState"
               /\ invoked'[i].action = "activate") ]_vars

\* the condition under which the attachment rule activates
AttachWanted == permission = TEMPORARY /\ attachInterest > 0

\* the task was the callback of a chrome.debugger.attach ending with a
\* generic lastError
AttachFailed ==
  /\ settled.subject = "attachState"
  /\ settled.action = "activate"
  /\ settled.outcome = "error"

\* C14: an attachInterest increment made with permission TEMPORARY,
\* attachInterest 0 and attachState IS_INACTIVE leaves attachState
\* ACTIVATING with chrome.debugger.attach called; and from every state with
\* permission TEMPORARY, attachInterest > 0 and attachState not IS_ACTIVE
\* (IS_INACTIVE, ACTIVATING or DEACTIVATING), attachState eventually is
\* IS_ACTIVE, unless permission or attachInterest stops asking for it,
\* chrome reports a detach or an attach fails.
C14_EventuallyActive ==
  /\ [][ ( /\ permission = TEMPORARY
            /\ attachInterest = 0
            /\ attachState = IS_INACTIVE
            /\ IncrementAttachInterest )
          => ( /\ attachState' = ACTIVATING
               /\ \E i \in 1..Len(invoked') :
                    /\ invoked'[i].subject = "attachState"
                    /\ invoked'[i].action = "activate" ) ]_vars
  /\ (AttachWanted /\ attachState # IS_ACTIVE)
       ~> (attachState = IS_ACTIVE \/ ~AttachWanted \/ detached
           \/ AttachFailed)

\* attachment was asked for while attachState was DEACTIVATING; the detach
\* has completed and its task has called chrome.debugger.attach
C14_Witness ==
  /\ settled.subject = "attachState"
  /\ settled.action = "deactivate"
  /\ settled.outcome = "complete"
  /\ AttachWanted
  /\ attachState = ACTIVATING
  /\ C4_Witness

\* C15: when the chrome callback of a pending action (activate or
\* deactivate) ends with a generic lastError and the subject no longer holds
\* the action's intermediate state, the task changes the value of neither
\* subject.
C15_StaleFailureLeavesState ==
  [][ \A k \in ActionKind :
        ( /\ Value(Current, k.subject) # Description(k.action).intermediateState
          /\ ActionSettles(k, "error") )
        => ( /\ attachState' = attachState
             /\ webAudioEventState' = webAudioEventState
             /\ \A i \in 1..Len(writes') :
                  writes'[i].from = writes'[i].to ) ]_vars

\* C16: every snapshot a policy rule is given holds the subjects' values of
\* the moment the rule is evaluated on it; a rule given snapshot N after the
\* reaction to snapshot N has already produced snapshot N+1 is evaluated on
\* values that are no longer current.
C16_RulesSeeCurrentSnapshot ==
  \A i \in 1..Len(evals) : evals[i].fresh

\* C17: deactivate() called on a subject that is IS_INACTIVE, ACTIVATING or
\* DEACTIVATING, and activate() called on a subject that is DEACTIVATING,
\* return with the program state as it was (subject values, pending
\* actions, pending sendCommands: nothing records the request) and without
\* a chrome call.
C17_MismatchedTransitionIsNoOp ==
  \A i \in 1..Len(calls) :
    ( \/ /\ calls[i].method = "deactivate"
         /\ calls[i].value \in {IS_INACTIVE, ACTIVATING, DEACTIVATING}
      \/ /\ calls[i].method = "activate"
         /\ calls[i].value = DEACTIVATING )
    => calls[i].noop

\* the attachment rule called activate() while attachState was DEACTIVATING
C17_Witness ==
  \E i \in 1..Len(calls) :
    /\ calls[i].subject = "attachState"
    /\ calls[i].method = "activate"
    /\ calls[i].value = DEACTIVATING
    /\ attachState = DEACTIVATING

\* the attachment rule called deactivate() while attachState was ACTIVATING
C17_WitnessDeactivate ==
  \E i \in 1..Len(calls) :
    /\ calls[i].subject = "attachState"
    /\ calls[i].method = "deactivate"
    /\ calls[i].value = ACTIVATING
    /\ attachState = ACTIVATING

\* C18: in every behaviour in which, from some point on, permission is not
\* TEMPORARY or attachInterest is 0, attachState is IS_INACTIVE from some
\* point on (every pending attach and detach having settled, successfully
\* or not), also when the condition began to hold while attachState was
\* ACTIVATING and the rule's deactivate() was dropped.
C18_EventuallyInactive ==
  <>[](~AttachWanted) => <>[](attachState = IS_INACTIVE)

\* C18, for behaviours without further detach notifications: when from some
\* point on permission is not TEMPORARY or attachInterest is 0, and chrome
\* reports no detach, attachState is IS_INACTIVE from some point on.
C18_EventuallyInactiveUndisturbed ==
  <>[](~AttachWanted /\ ~detached) => <>[](attachState = IS_INACTIVE)

\* pending chrome calls started by the BinaryTransitionSubject `subject`
InFlightOf(subject) ==
  SumOver(inflight, {k \in ActionKind : k.subject = subject})

\* C19: each of the two BinaryTransitionSubjects has at most one action
\* (activate or deactivate) awaiting its chrome callback.
C19_AtMostOneActionInFlight ==
  \A subject \in Subjects : InFlightOf(subject) <= 1

\* the task's next() calls that changed the value of their subject
ChangingWrites ==
  {i \in 1..Len(writes) : writes[i].from # writes[i].to}


\* C20: the reaction to one event ends after at most MaxCascadeEvals rule
\* evaluations and MaxCascadeWrites writes; when it has ended the last
\* snapshot emitted is the current state, so nothing is emitted until the
\* next event; and only writes that change a value (and the event's own
\* change) produce a snapshot, two evaluations each: the repeated
\* next(IS_INACTIVE) of the web audio rule produces none.
C20_CascadeTerminates ==
  /\ Len(evals) <= MaxCascadeEvals
  /\ Len(writes) <= MaxCascadeWrites
  /\ previous = Snapshot(Current)
  /\ Len(evals) <= 2 * (Cardinality(ChangingWrites) + 1)

\* the task wrote IS_INACTIVE on the stream that was IS_INACTIVE already,
\* and made the most evaluations a task makes
C20_Witness ==
  /\ \E i \in 1..Len(writes) :
       /\ writes[i].subject = "webAudioEventState"
       /\ writes[i].from = IS_INACTIVE
       /\ writes[i].to = IS_INACTIVE
  /\ Len(evals) = MaxCascadeEvals

====
